---------------------------- MODULE Spec2Model ----------------------------
(***************************************************************************)
(* ExpenseCategorizer (src/model.py) and its use by the web layer          *)
(* (src/app.py): the keyword override, the statistical classifier, the     *)
(* model lifecycle (construct / load / lazy train / save) and the calls    *)
(* of request threads on the module-level facade `categorizer`.            *)
(*                                                                         *)
(* Text is a sequence of one-character strings.  Percentages are integers  *)
(* in hundredths of a percent (2054 is 20.54).                             *)
(***************************************************************************)
EXTENDS Naturals, Sequences, FiniteSets, TLC

(***************************************************************************)
(* Bounds of the model.                                                    *)
(***************************************************************************)
\* longest description a caller passes
MaxLen == 4
\* Pipeline objects one process creates (one per train(), one per load)
MaxObjs == 3

\* The characters descriptions are written with: an upper-case letter (so
\* that lower() is not the identity), lower-case letters that spell the
\* keyword 'tea', and a blank (so that strip() is not the identity).
Alphabet == {"T", "t", "e", "a", " "}

\* the request threads that share the facade (app.py serves requests
\* concurrently from one module-level categorizer)
Threads == {1, 2}

\* Python's None as a return value; the absent model reference
None == "None"
NoModel == 0

Range(s) == {s[i] : i \in DOMAIN s}

\* every text of at most n characters
Texts(n) == UNION {[1..k -> Alphabet] : k \in 0..n}

Descriptions == Texts(MaxLen)

\* the descriptions the concurrent callers pass: empty, blank, a keyword
\* in upper/lower case with a blank around it, and a text without keyword
SampleDescriptions ==
    {<<>>, <<" ">>, <<"T", "e", "a", " ">>, <<"e", "a">>}

(***************************************************************************)
(* str.lower(), str.strip(), `word in description`                         *)
(***************************************************************************)
lowerChar(c) ==
    CASE c = "T" -> "t"
      [] c = "E" -> "e"
      [] c = "A" -> "a"
      [] OTHER -> c

lower(s) == [i \in 1..Len(s) |-> lowerChar(s[i])]

Whitespace == {" "}

RECURSIVE lstrip(_)
lstrip(s) ==
    IF s # <<>> /\ Head(s) \in Whitespace THEN lstrip(Tail(s)) ELSE s

RECURSIVE rstrip(_)
rstrip(s) ==
    IF s # <<>> /\ s[Len(s)] \in Whitespace
    THEN rstrip(SubSeq(s, 1, Len(s) - 1))
    ELSE s

strip(s) == rstrip(lstrip(s))

\* Python's `word in description` on strings: substring test
Contains(word, s) ==
    \E i \in 0..Len(s) :
        /\ i + Len(word) <= Len(s)
        /\ SubSeq(s, i + 1, i + Len(word)) = word

(***************************************************************************)
(* Attributes set by __init__                                              *)
(***************************************************************************)
InitialCategories == <<"Food", "Travel", "Bills", "Shopping", "Entertainment">>

InitialFoodKeywords ==
    << <<"f","o","o","d">>, <<"p","o","t","a","t","o">>,
       <<"c","h","i","p","s">>, <<"f","r","i","e","s">>,
       <<"s","n","a","c","k">>, <<"b","u","r","g","e","r">>,
       <<"p","i","z","z","a">>, <<"c","o","f","f","e","e">>,
       <<"t","e","a">>, <<"m","e","a","l">>, <<"l","u","n","c","h">>,
       <<"d","i","n","n","e","r">>,
       <<"b","r","e","a","k","f","a","s","t">>,
       <<"p","o","p","c","o","r","n">> >>

(***************************************************************************)
(* The statistical model: TfidfVectorizer + MultinomialNB fitted on the    *)
(* fixed corpus of get_training_data.                                      *)
(***************************************************************************)
Rep(x, n) == [i \in 1..n |-> x]

training_categories ==
    Rep("Food", 23) \o Rep("Travel", 21) \o Rep("Bills", 20)
      \o Rep("Shopping", 24) \o Rep("Entertainment", 24)

\* MultinomialNB.fit stores the distinct labels in sorted order; predict
\* and predict_proba index their output by this order.
classes_ == <<"Bills", "Entertainment", "Food", "Shopping", "Travel">>

class_count(c) ==
    Cardinality({i \in DOMAIN training_categories : training_categories[i] = c})

\* Posterior of a description, as (numerator per class in classes_ order,
\* common denominator).  No token of two or more characters written with
\* Alphabet is a term of the fitted vocabulary (the only corpus token
\* spelled with these letters, 'at', is an English stop word), so the
\* TF-IDF row of every description is zero and the posterior is the class
\* prior class_count / number of examples.
predict_proba(description) ==
    [i \in DOMAIN classes_ |-> class_count(classes_[i])]

proba_total == Len(training_categories)

\* round(prob * 100, 2), in hundredths of a percent
Percent(num) == (2 * num * 10000 + proba_total) \div (2 * proba_total)

\* Pipeline.predict: the class of the first maximal posterior
ModelPredictMax(description) ==
    LET p == predict_proba(description) IN
    classes_[CHOOSE i \in DOMAIN p :
                /\ \A j \in DOMAIN p : p[j] <= p[i]
                /\ \A j \in DOMAIN p : p[j] = p[i] => i <= j]


(***************************************************************************)
(* Pure parts of the facade                                                *)
(***************************************************************************)
_food_override(keywords, description) ==
    IF \E i \in DOMAIN keywords : Contains(keywords[i], description)
    THEN "Food"
    ELSE None

\* variants of the lazy-training test: train on every call, the test
\* inverted, and never train
model_is_None_always(m) == TRUE

model_is_not_None(m) == m # NoModel

model_is_None_never(m) == FALSE

\* `if self.model is None` of predict and predict_with_confidence
model_is_None(m) == m = NoModel

\* self.model.predict / predict_proba succeed on a fitted Pipeline and
\* raise otherwise (NotFittedError; AttributeError on None)
Usable(m, f) == m # NoModel /\ m \in f

\* what predict returns once it is past the lazy-training check, given the
\* model reference m and the set f of fitted Pipeline objects
predict(cats, keywords, m, f, d) ==
    LET description == strip(lower(d))
        food_rule == _food_override(keywords, description)
    IN  IF description = <<>> THEN "Shopping"
        ELSE IF food_rule # None THEN food_rule
        ELSE IF Usable(m, f) THEN ModelPredictMax(description)
        ELSE "Shopping"

\* zip(self.categories, probabilities): the i-th category is paired with
\* the i-th probability
zip_confidence(cats, probabilities) ==
    [c \in Range(cats) |->
        LET i == CHOOSE k \in DOMAIN cats : cats[k] = c
        IN  Percent(probabilities[i])]

\* variant: predict_with_confidence applying the keyword override
predict_with_confidence_override(cats, keywords, d) ==
    LET description == strip(lower(d))
    IN  IF _food_override(keywords, description) # None
        THEN [c \in Range(cats) |-> IF c = "Food" THEN 10000 ELSE 0]
        ELSE zip_confidence(cats, predict_proba(description))

\* the mapping predict_with_confidence returns on a fitted model
predict_with_confidence(cats, keywords, d) ==
    LET description == strip(lower(d))
    IN  zip_confidence(cats, predict_proba(description))

\* variant: the model is pickled before it is fitted
Pickled_before_fit(m, f) == "unfitted"

\* pickle.dump(self.model, f): the bytes written for model reference m
Pickled(m, f) == IF m \in f THEN "fitted" ELSE "unfitted"

\* __init__: os.path.exists(self.model_file)
ArtifactExists(a) == a # "none"

\* __init__ and load_model: self.model after construction over artifact a;
\* pickle.load creates the first Pipeline object of the process
LoadedModel(a) == IF ArtifactExists(a) THEN 1 ELSE NoModel

\* the fitted Pipeline objects after construction over artifact a
LoadedFitted(a) == IF a = "fitted" THEN {1} ELSE {}

(***************************************************************************)
(* State                                                                   *)
(***************************************************************************)
VARIABLES
    model,          \* self.model: NoModel or the id of a Pipeline object
    fitted,         \* the Pipeline objects of this process that are fitted
    nobj,           \* Pipeline objects created by this process
    artifact,       \* expense_model.pkl: "none", "partial" (truncated,
                    \* unreadable), "unfitted" or "fitted" (a pickle)
    categories,     \* self.categories
    FOOD_KEYWORDS,  \* self.FOOD_KEYWORDS
    pc,             \* per thread: where its call stands
    op,             \* per thread: the method it called
    description,    \* per thread: the argument of the call
    obj,            \* per thread: the Pipeline whose fit() is running
    result,         \* per thread: the value returned / the error raised
    fresh,          \* history: no call was made since construction
    entered,        \* history, per thread: self.model at the call's start
    trained,        \* history, per thread: train() passes the call ran
    quiet,          \* history, per thread: the model was fitted at the
                    \* call's start and no train() replaced it since
    lastTrain       \* history: how the latest train() ended

vars == <<model, fitted, nobj, artifact, categories, FOOD_KEYWORDS, pc, op,
          description, obj, result, fresh, entered, trained, quiet, lastTrain>>

shared == <<model, fitted, nobj, artifact, categories, FOOD_KEYWORDS>>

\* the methods that take a description
Methods == {"predict", "predict_with_confidence"}

InTrain == {"install", "fit", "fitting", "open", "dump"}

(***************************************************************************)
(* Construction: ExpenseCategorizer.__init__ (categorizer = ... in app.py) *)
(***************************************************************************)
Constructed(a) ==
    /\ artifact = a
    /\ categories = InitialCategories
    /\ FOOD_KEYWORDS = InitialFoodKeywords
    /\ model = LoadedModel(a)
    /\ nobj = LoadedModel(a)
    /\ fitted = LoadedFitted(a)
    /\ pc = [t \in Threads |-> "idle"]
    /\ op = [t \in Threads |-> "none"]
    /\ description = [t \in Threads |-> <<>>]
    /\ obj = [t \in Threads |-> NoModel]
    /\ result = [t \in Threads |-> None]
    /\ fresh = TRUE
    /\ entered = [t \in Threads |-> "none"]
    /\ trained = [t \in Threads |-> 0]
    /\ quiet = [t \in Threads |-> FALSE]
    /\ lastTrain = "none"

\* the process starts with no artifact or with the artifact of an earlier
\* run's completed train()
Init == \E a \in {"none", "fitted"} : Constructed(a)

\* A new process constructs the facade over the artifact left behind.  No
\* request is in flight at process start; pickle.load raises on a
\* truncated file, in which case no facade comes to exist.
Construct ==
    /\ \A t \in Threads : pc[t] = "idle"
    /\ ~fresh
    /\ artifact # "partial"
    /\ model' = LoadedModel(artifact)
    /\ nobj' = LoadedModel(artifact)
    /\ fitted' = LoadedFitted(artifact)
    /\ fresh' = TRUE
    /\ lastTrain' = "none"
    /\ UNCHANGED <<artifact, categories, FOOD_KEYWORDS, pc, op, description,
                   obj, result, entered, trained, quiet>>

(***************************************************************************)
(* Calls                                                                   *)
(***************************************************************************)
\* a thread calls predict(d) or predict_with_confidence(d)
Call(t, o, d) ==
    /\ pc[t] = "idle"
    /\ pc' = [pc EXCEPT ![t] = "check"]
    /\ op' = [op EXCEPT ![t] = o]
    /\ description' = [description EXCEPT ![t] = d]
    /\ entered' = [entered EXCEPT
                     ![t] = IF model = NoModel THEN "absent" ELSE "present"]
    /\ quiet' = [quiet EXCEPT ![t] = Usable(model, fitted)]
    /\ trained' = [trained EXCEPT ![t] = 0]
    /\ fresh' = FALSE
    /\ UNCHANGED <<shared, obj, result, lastTrain>>

\* a thread calls train() (app.py trains at start-up)
CallTrain(t) ==
    /\ pc[t] = "idle"
    /\ pc' = [pc EXCEPT ![t] = "install"]
    /\ op' = [op EXCEPT ![t] = "train"]
    /\ entered' = [entered EXCEPT
                     ![t] = IF model = NoModel THEN "absent" ELSE "present"]
    /\ fresh' = FALSE
    /\ UNCHANGED <<shared, description, obj, result, trained, quiet, lastTrain>>

\* get_categories: return self.categories
get_categories(t) ==
    /\ pc[t] = "idle"
    /\ pc' = [pc EXCEPT ![t] = "done"]
    /\ op' = [op EXCEPT ![t] = "get_categories"]
    /\ result' = [result EXCEPT ![t] = categories]
    /\ entered' = [entered EXCEPT
                     ![t] = IF model = NoModel THEN "absent" ELSE "present"]
    /\ fresh' = FALSE
    /\ UNCHANGED <<shared, description, obj, trained, quiet, lastTrain>>

\* predict / predict_with_confidence: if self.model is None: self.train()
CheckModel(t) ==
    /\ pc[t] = "check"
    /\ pc' = [pc EXCEPT
                ![t] = IF model_is_None(model) THEN "install" ELSE "use"]
    /\ UNCHANGED <<shared, op, description, obj, result, fresh, entered,
                   trained, quiet, lastTrain>>

\* train: self.model = Pipeline([...]), a new, unfitted object
Install(t) ==
    /\ pc[t] = "install"
    /\ nobj < MaxObjs
    /\ nobj' = nobj + 1
    /\ model' = nobj + 1
    /\ pc' = [pc EXCEPT ![t] = "fit"]
    /\ trained' = [trained EXCEPT ![t] = trained[t] + 1]
    /\ quiet' = [u \in Threads |-> FALSE]
    /\ UNCHANGED <<fitted, artifact, categories, FOOD_KEYWORDS, op,
                   description, obj, result, fresh, entered, lastTrain>>

\* train: self.model.fit(...) reads self.model and starts fitting it
FitBegin(t) ==
    /\ pc[t] = "fit"
    /\ obj' = [obj EXCEPT ![t] = model]
    /\ pc' = [pc EXCEPT ![t] = "fitting"]
    /\ UNCHANGED <<shared, op, description, result, fresh, entered, trained,
                   quiet, lastTrain>>

\* train: fit() ends, the object it was called on is fitted
FitEnd(t) ==
    /\ pc[t] = "fitting"
    /\ fitted' = fitted \cup {obj[t]}
    /\ obj' = [obj EXCEPT ![t] = NoModel]
    /\ pc' = [pc EXCEPT ![t] = "open"]
    /\ UNCHANGED <<model, nobj, artifact, categories, FOOD_KEYWORDS, op,
                   description, result, fresh, entered, trained, quiet,
                   lastTrain>>

\* the exception of a failed step leaves train() and, train() being called
\* outside predict's try block, the calling method as well
Raise(t, e) ==
    /\ pc' = [pc EXCEPT ![t] = "raised"]
    /\ result' = [result EXCEPT ![t] = e]

\* save_model: open(self.model_file, 'wb') truncates the file, or fails
SaveOpen(t) ==
    /\ pc[t] = "open"
    /\ \/ /\ artifact' = "partial"
          /\ pc' = [pc EXCEPT ![t] = "dump"]
          /\ UNCHANGED <<result, lastTrain>>
       \/ /\ Raise(t, "OSError")
          /\ lastTrain' = "failed"
          /\ UNCHANGED artifact
    /\ UNCHANGED <<model, fitted, nobj, categories, FOOD_KEYWORDS, op,
                   description, obj, fresh, entered, trained, quiet>>

\* save_model: pickle.dump(self.model, f) and the close of the file (the
\* writes of one dump are taken as one step), or the write fails; then
\* train() returns to its caller
SaveDump(t) ==
    /\ pc[t] = "dump"
    /\ \/ /\ artifact' = Pickled(model, fitted)
          /\ lastTrain' = "completed"
          /\ IF op[t] = "train"
             THEN /\ pc' = [pc EXCEPT ![t] = "done"]
                  /\ result' = [result EXCEPT ![t] = None]
             ELSE /\ pc' = [pc EXCEPT ![t] = "use"]
                  /\ UNCHANGED result
       \/ /\ Raise(t, "OSError")
          /\ lastTrain' = "failed"
          /\ UNCHANGED artifact
    /\ UNCHANGED <<model, fitted, nobj, categories, FOOD_KEYWORDS, op,
                   description, obj, fresh, entered, trained, quiet>>

\* predict, from description.lower().strip() to its return
PredictUse(t) ==
    /\ pc[t] = "use"
    /\ op[t] = "predict"
    /\ pc' = [pc EXCEPT ![t] = "done"]
    /\ result' = [result EXCEPT
         ![t] = predict(categories, FOOD_KEYWORDS, model, fitted, description[t])]
    /\ UNCHANGED <<shared, op, description, obj, fresh, entered, trained,
                   quiet, lastTrain>>

\* predict_with_confidence, from description.lower().strip() to its return;
\* an error of predict_proba is not caught
ConfidenceUse(t) ==
    /\ pc[t] = "use"
    /\ op[t] = "predict_with_confidence"
    /\ IF Usable(model, fitted)
       THEN /\ pc' = [pc EXCEPT ![t] = "done"]
            /\ result' = [result EXCEPT ![t] =
                 predict_with_confidence(categories, FOOD_KEYWORDS, description[t])]
       ELSE Raise(t, "NotFittedError")
    /\ UNCHANGED <<shared, op, description, obj, fresh, entered, trained,
                   quiet, lastTrain>>

\* the caller takes the result (add_expense stores the category) or the
\* error (the request fails)
Return(t) ==
    /\ pc[t] \in {"done", "raised"}
    /\ pc' = [pc EXCEPT ![t] = "idle"]
    /\ op' = [op EXCEPT ![t] = "none"]
    /\ description' = [description EXCEPT ![t] = <<>>]
    /\ result' = [result EXCEPT ![t] = None]
    /\ entered' = [entered EXCEPT ![t] = "none"]
    /\ trained' = [trained EXCEPT ![t] = 0]
    /\ quiet' = [quiet EXCEPT ![t] = FALSE]
    /\ UNCHANGED <<shared, obj, fresh, lastTrain>>

Step(t) ==
    \/ CallTrain(t)
    \/ get_categories(t)
    \/ CheckModel(t)
    \/ Install(t)
    \/ FitBegin(t)
    \/ FitEnd(t)
    \/ SaveOpen(t)
    \/ SaveDump(t)
    \/ PredictUse(t)
    \/ ConfidenceUse(t)
    \/ Return(t)

\* sequential use: one caller, every description up to MaxLen
Next ==
    \/ Construct
    \/ /\ pc[1] = "idle"
       /\ \E o \in Methods, d \in Descriptions : Call(1, o, d)
    \/ Step(1)

Spec == Init /\ [][Next]_vars

\* concurrent use: the request threads share the facade
ConcNext ==
    \/ Construct
    \/ \E t \in Threads :
          /\ pc[t] = "idle"
          /\ \E o \in Methods, d \in SampleDescriptions : Call(t, o, d)
    \/ \E t \in Threads : Step(t)

ConcSpec == Init /\ [][ConcNext]_vars

(***************************************************************************)
(* Properties                                                              *)
(***************************************************************************)
normalized(d) == strip(lower(d))

\* d is non-empty after lower/strip and contains a configured food keyword
HasFoodKeyword(d) ==
    /\ normalized(d) # <<>>
    /\ \E i \in DOMAIN InitialFoodKeywords :
          Contains(InitialFoodKeywords[i], normalized(d))

\* the statistical model's posterior of category c for description d, as
\* a percentage rounded to 2 decimals
PosteriorPercent(c, d) ==
    LET i == CHOOSE k \in DOMAIN classes_ : classes_[k] = c
    IN  Percent(predict_proba(normalized(d))[i])

\* what predict returns for d on a fully trained facade
TrainedAnswer(d) ==
    predict(InitialCategories, InitialFoodKeywords, 1, {1}, d)

Ended(t) == pc[t] \in {"done", "raised"}

\* C1: every predict call on a description that is non-empty after
\* lower/strip and contains a food keyword ends by returning 'Food',
\* in every model state.
C1_FoodOverride ==
    \A t \in Threads :
        (op[t] = "predict" /\ Ended(t) /\ HasFoodKeyword(description[t]))
            => (pc[t] = "done" /\ result[t] = "Food")

\* Supplement to C1 (holds): a predict call on such a description that
\* does return, returns 'Food'; the statistical model alone would answer
\* ModelPredictMax, which is never 'Food' here.
FoodWhenReturned ==
    \A t \in Threads :
        (op[t] = "predict" /\ pc[t] = "done" /\ HasFoodKeyword(description[t]))
            => /\ result[t] = "Food"
               /\ ModelPredictMax(normalized(description[t])) # "Food"

\* C2: the mapping predict_with_confidence returns has exactly the five
\* categories as keys and stores under each category c the posterior
\* percentage of c itself.
C2_OwnPosterior ==
    \A t \in Threads :
        (op[t] = "predict_with_confidence" /\ pc[t] = "done")
            => /\ DOMAIN result[t] = Range(InitialCategories)
               /\ \A c \in Range(InitialCategories) :
                     result[t][c] = PosteriorPercent(c, description[t])

\* C3: no predict call ever ends with an error: every failure, that of
\* the implicit training pass and of the artifact write included, is
\* turned into a returned category.
C3_PredictNeverRaises ==
    \A t \in Threads : op[t] = "predict" => pc[t] # "raised"

\* C4: every predict call on an empty or blank description ends by
\* returning 'Shopping' without an error, in every model state.
C4_BlankIsShopping ==
    \A t \in Threads :
        (op[t] = "predict" /\ Ended(t) /\ normalized(description[t]) = <<>>)
            => (pc[t] = "done" /\ result[t] = "Shopping")

\* Supplement to C4 (holds): a predict call on an empty or blank
\* description that does return, returns 'Shopping'.
ShoppingWhenReturned ==
    \A t \in Threads :
        (op[t] = "predict" /\ pc[t] = "done"
           /\ normalized(description[t]) = <<>>)
            => result[t] = "Shopping"

\* C5, state part: (a) right after construction the model is absent
\* exactly when no artifact existed; (b) a predict/predict_with_confidence
\* call that began with the model absent has run exactly one training pass
\* when it classifies; (c) when such a call has returned the model is
\* present and the artifact exists; (d) a call that began with the model
\* present runs no training pass.
C5_LifecycleState ==
    /\ fresh => (model = NoModel <=> ~ArtifactExists(artifact))
    /\ \A t \in Threads :
          op[t] \in Methods =>
            /\ (entered[t] = "absent" /\ pc[t] \in {"use", "done"})
                  => trained[t] = 1
            /\ (entered[t] = "absent" /\ pc[t] = "done")
                  => (model # NoModel /\ ArtifactExists(artifact))
            /\ entered[t] = "present" => trained[t] = 0

\* C5 (sequential use): model lifecycle.  The state part above holds in
\* every state, and once the model is present no call of the facade makes
\* it absent again (a step that is not the construction of a new facade
\* keeps a present model present).
C5_Lifecycle ==
    /\ []C5_LifecycleState
    /\ [][(model # NoModel /\ ~fresh') => model' # NoModel]_vars

\* a predict call that found the model absent has trained once, written the
\* artifact and returned
C5_Witness ==
    /\ op[1] = "predict" /\ pc[1] = "done"
    /\ entered[1] = "absent" /\ trained[1] = 1
    /\ artifact = "fitted"

\* C6 (sequential use): whenever no training is in progress and the latest
\* train() completed, the artifact is the pickle of the fitted in-memory
\* model, and a fresh facade constructed over it returns the predict
\* result of the training instance for every description of the battery
\* (the sample descriptions and the description of the call at hand).
C6_RoundTrip ==
    ((\A t \in Threads : pc[t] \notin InTrain) /\ lastTrain = "completed")
        => /\ artifact = "fitted"
           /\ Usable(model, fitted)
           /\ \A d \in SampleDescriptions \cup Range(description) :
                 predict(InitialCategories, InitialFoodKeywords,
                         LoadedModel(artifact), LoadedFitted(artifact), d)
                   = predict(categories, FOOD_KEYWORDS, model, fitted, d)

\* an explicit train() over an already present model has completed and
\* overwritten the artifact
C6_Witness ==
    /\ op[1] = "train" /\ pc[1] = "done"
    /\ entered[1] = "present"
    /\ lastTrain = "completed"
    /\ artifact = "fitted"

\* C7: two predict_with_confidence calls whose descriptions the
\* statistical model scores identically return the same mapping, whether
\* or not a description contains a food keyword.
C7_NoOverrideInConfidence ==
    \A t, u \in Threads :
        ( /\ op[t] = "predict_with_confidence" /\ pc[t] = "done"
          /\ op[u] = "predict_with_confidence" /\ pc[u] = "done"
          /\ predict_proba(normalized(description[t]))
               = predict_proba(normalized(description[u])) )
            => result[t] = result[u]

\* two predict_with_confidence calls have returned, one on a description
\* for which predict returns 'Food' by the override, one on a description
\* without keyword
C7_Witness ==
    /\ op[1] = "predict_with_confidence" /\ pc[1] = "done"
    /\ op[2] = "predict_with_confidence" /\ pc[2] = "done"
    /\ HasFoodKeyword(description[1])
    /\ ~HasFoodKeyword(description[2])
    /\ normalized(description[2]) # <<>>

\* C8, result part: a predict / predict_with_confidence call made on a
\* trained facade with no train() replacing the model meanwhile returns
\* what the call returns alone.
C8_AloneResult ==
    \A t \in Threads :
        (quiet[t] /\ Ended(t)) =>
            /\ pc[t] = "done"
            /\ op[t] = "predict" => result[t] = TrainedAnswer(description[t])
            /\ op[t] = "predict_with_confidence" =>
                 result[t] = predict_with_confidence(
                     InitialCategories, InitialFoodKeywords, description[t])

\* C8 (concurrent use): a step of a predict / predict_with_confidence call
\* that began with the model present changes neither the model, the
\* fitted objects, the artifact, the categories nor the keywords; and the
\* result part above.
C8_PredictFrame ==
    /\ []C8_AloneResult
    /\ [][\A t \in Threads :
            (op[t] \in Methods /\ entered[t] = "present" /\ pc'[t] # pc[t])
                => UNCHANGED shared]_vars

\* two calls on the trained facade overlap: one has returned, the other
\* is about to classify
C8_Witness ==
    /\ quiet[1] /\ op[1] = "predict" /\ pc[1] = "done"
    /\ quiet[2] /\ op[2] \in Methods /\ pc[2] = "use"

\* C9: a predict call that returns while another thread is inside train()
\* returns what the fully trained model returns, and a
\* predict_with_confidence call that ends then has not raised the
\* not-fitted error.
C9_TrainSerialized ==
    \A t \in Threads :
        (Ended(t) /\ \E u \in Threads \ {t} : pc[u] \in InTrain) =>
            /\ op[t] = "predict" =>
                 (pc[t] = "done" => result[t] = TrainedAnswer(description[t]))
            /\ op[t] = "predict_with_confidence" =>
                 (pc[t] = "raised" => result[t] # "NotFittedError")

\* C10: a predict / predict_with_confidence call that finds the model
\* absent at its test always goes on into train(), whatever the other
\* threads are doing (nothing limits training to one call).
C10_CheckThenAct ==
    [][\A t \in Threads :
         (pc[t] = "check" /\ model = NoModel /\ pc'[t] # pc[t])
            => pc'[t] = "install"]_vars

\* two predict calls that both found the model absent have both trained
\* and both written the artifact
C10_Witness ==
    \A t \in Threads :
        /\ op[t] = "predict" /\ entered[t] = "absent"
        /\ trained[t] = 1
        /\ pc[t] \in {"use", "done"}

=============================================================================
